---- MODULE Spec2Model ----
(***************************************************************************)
(* Load generators of the onboarding portal: advanced_load_tester.py,      *)
(* comprehensive_load_test.py and quick_load_test.py.  One run of one of   *)
(* the three scripts is a behaviour: the orchestrating coroutine (pc), the *)
(* worker coroutines (wpc), the wall clock (now) and the shared results.   *)
(* asyncio runs one coroutine at a time, so the code between two awaits is *)
(* one atomic action.  The clock is discrete; a sleep lasts at least the   *)
(* requested time, a request lasts any time.                               *)
(***************************************************************************)
EXTENDS Integers, Sequences, FiniteSets, TLC

\* ------------------------------------------------------------------ bounds
MaxConcurrent == 2      \* largest --concurrent / --max-concurrent drawn
MaxDuration == 1        \* largest --duration drawn (clock ticks)
MaxStep == 2            \* largest --step drawn
MaxRampUp == 2          \* largest --ramp-up drawn
MaxTime == 4            \* the clock stops advancing here
MaxRepeat == 0          \* requests of a run that are not a worker's first
MaxSamples == 3         \* outcomes fed one by one to an analyzer
MaxLatency == 11        \* largest latency of an outcome fed one by one
MaxScenarios == 2       \* blocks of the ten scenario outcomes fed
MaxEndpoints == 3       \* longest endpoint table given to the selector
MaxWeight == 3          \* largest weight in such a table

\* ------------------------------------------------------- program constants
PauseBetweenLevels == 2 \* asyncio.sleep(2) between levels

None == "<None>"        \* Python's None
Progs == {"advanced", "comprehensive", "quick"}
Workers == 1..MaxConcurrent

\* The endpoint table (name, weight), in list order: the first two entries
\* of the table, with small weights.  Each script has its own table of this
\* shape (config.endpoints, self.endpoints, endpoints_to_test).
endpoints ==
  << [name |-> "health_check", weight |-> 2],
     [name |-> "auth_login", weight |-> 1] >>

\* What the transport can answer: an HTTP response with a status and a body,
\* or an exception e with its message str(e).  asyncio.TimeoutError, raised
\* when ClientTimeout(total=...) expires, has the empty message.
StatusCodes == {200, 404}
BodySizes == {2}
ExcMessages == {"", "Cannot connect to host"}
Responses ==
  {[kind |-> "http", status |-> s, size |-> n] :
     s \in StatusCodes, n \in BodySizes}
  \cup {[kind |-> "exc", msg |-> m] : m \in ExcMessages}

VARIABLES
  prog,             \* which script runs
  config,           \* the command line: max_concurrent, step, duration, ramp_up_time
  pc,               \* position of the orchestrating coroutine
  exception,        \* the exception that left the run, or None
  now,              \* time.time()
  start_time,       \* start of the run (advanced) or of the level
  sleep_start,      \* when the orchestrator went to sleep
  levels,           \* the levels still to run (comprehensive, quick)
  concurrent_users, \* concurrency of the level being run
  i,                \* loop index of ramp_up_workers
  semaphore,        \* value of the level's asyncio.Semaphore
  wpc,              \* position of each worker coroutine
  wreq,             \* the request a worker has in flight
  requests_made,    \* attempts completed by each worker
  results,          \* the shared results list
  all_analysis,     \* level -> analysis (advanced: max_concurrent -> analysis)
  issued,           \* requests issued so far, probe included
  repeats,          \* requests issued that were not their worker's first
  returned,         \* what the run returned: "", "None" or "analysis"
  probe_status,     \* status of the connectivity probe: -1 none yet, 0 failed
  peak,             \* most workers of the level at once inside their loop
  endpoint_table,   \* the endpoint list the selector walks
  draw              \* the last r = random.uniform(0, total_weight)

vars == << prog, config, pc, exception, now, start_time, sleep_start, levels,
           concurrent_users, i, semaphore, wpc, wreq, requests_made, results,
           all_analysis, issued, repeats, returned, probe_status, peak,
           endpoint_table, draw >>

\* ----------------------------------------------------------------- helpers
RECURSIVE SumSeq(_)
SumSeq(s) == IF s = << >> THEN 0 ELSE Head(s) + SumSeq(Tail(s))

RECURSIVE SumWeights(_)
SumWeights(eps) ==
  IF eps = << >> THEN 0 ELSE Head(eps).weight + SumWeights(Tail(eps))

Truthy(x) == x # None /\ x # ""

\* ------------------------------------------------------------ make_request
\* advanced_load_tester.py: TestResult without concurrent_users.
make_request_adv(endpoint_config, req_start, resp) ==
  IF resp.kind = "http"
  THEN [endpoint |-> endpoint_config.name, status_code |-> resp.status,
        response_time |-> now - req_start, timestamp |-> req_start,
        response_size |-> resp.size, error |-> None]
  ELSE [endpoint |-> endpoint_config.name, status_code |-> 0,
        response_time |-> now - req_start, timestamp |-> req_start,
        response_size |-> 0, error |-> resp.msg]

\* comprehensive_load_test.py
make_request(endpoint_name, req_start, users, resp) ==
  IF resp.kind = "http"
  THEN [endpoint |-> endpoint_name, status_code |-> resp.status,
        response_time |-> now - req_start, timestamp |-> req_start,
        response_size |-> resp.size, concurrent_users |-> users,
        error |-> None]
  ELSE [endpoint |-> endpoint_name, status_code |-> 0,
        response_time |-> now - req_start, timestamp |-> req_start,
        response_size |-> 0, concurrent_users |-> users,
        error |-> resp.msg]

\* quick_load_test.py
test_endpoint(endpoint, req_start, resp) ==
  IF resp.kind = "http"
  THEN [endpoint |-> endpoint, status |-> resp.status,
        response_time |-> now - req_start, content_length |-> resp.size,
        success |-> (200 <= resp.status /\ resp.status < 400)]
  ELSE [endpoint |-> endpoint, status |-> 0,
        response_time |-> now - req_start, content_length |-> 0,
        success |-> FALSE, error |-> resp.msg]

\* --------------------------------------------------------- select_endpoint
\* The walk with the test r < current_weight.
RECURSIVE WalkStrict(_, _, _, _)
WalkStrict(eps, k, current_weight, r) ==
  IF k > Len(eps) THEN 0
  ELSE IF r < current_weight + eps[k].weight THEN k
  ELSE WalkStrict(eps, k + 1, current_weight + eps[k].weight, r)

\* The walk that compares r with each weight, not with the running sum.
RECURSIVE WalkNoSum(_, _, _, _)
WalkNoSum(eps, k, current_weight, r) ==
  IF k > Len(eps) THEN 0
  ELSE IF r <= eps[k].weight THEN k
  ELSE WalkNoSum(eps, k + 1, current_weight, r)

\* advanced_load_tester.py.  The walk over the list: position of the first
\* endpoint whose cumulative weight reaches r, 0 when the loop falls through.
RECURSIVE Walk(_, _, _, _)
Walk(eps, k, current_weight, r) ==
  IF k > Len(eps) THEN 0
  ELSE IF r <= current_weight + eps[k].weight THEN k
  ELSE Walk(eps, k + 1, current_weight + eps[k].weight, r)

select_endpoint(eps, r) ==
  IF Walk(eps, 1, 0, r) = 0 THEN eps[1] ELSE eps[Walk(eps, 1, 0, r)]

\* comprehensive_load_test.py: the walk over self.endpoints.items(), a dict
\* in insertion order; the result is the pair (name, config).
RECURSIVE comp_walk(_, _, _, _)
comp_walk(items, k, current_weight, r) ==
  IF k > Len(items) THEN 0
  ELSE IF r <= current_weight + items[k].weight THEN k
  ELSE comp_walk(items, k + 1, current_weight + items[k].weight, r)

comp_select_endpoint(items, r) ==
  LET k == comp_walk(items, 1, 0, r)
  IN IF k = 0 THEN << items[1].name, items[1] >>
     ELSE << items[k].name, items[k] >>

\* quick_load_test.py, inline in worker: selected_endpoint starts as the
\* first endpoint and the loop breaks at the first r <= current_weight.
RECURSIVE quick_walk(_, _, _, _, _)
quick_walk(eps, k, current_weight, selected_endpoint, r) ==
  IF k > Len(eps) THEN selected_endpoint
  ELSE IF r <= current_weight + eps[k].weight THEN eps[k]
  ELSE quick_walk(eps, k + 1, current_weight + eps[k].weight,
                  selected_endpoint, r)

quick_select(eps, r) == quick_walk(eps, 1, 0, eps[1], r)

\* random.uniform(0, total_weight), on the integer grid
Draws(eps) == 0..SumWeights(eps)

\* ---------------------------------------------------------------- analysis
RECURSIVE Insert(_, _)
Insert(x, s) ==
  IF s = << >> THEN << x >>
  ELSE IF x <= Head(s) THEN << x >> \o s
  ELSE << Head(s) >> \o Insert(x, Tail(s))

\* The list in the order the outcomes arrived.
unsorted(s) == s

RECURSIVE sorted(_)
sorted(s) == IF s = << >> THEN << >> ELSE Insert(Head(s), sorted(Tail(s)))

\* [f(s[1]), ..., f(s[n])]
Map(s, f(_)) == [k \in 1..Len(s) |-> f(s[k])]

Range(s) == {s[k] : k \in 1..Len(s)}

Count(s, P(_)) == Len(SelectSeq(s, P))

\* A float that is a quotient is kept as the quotient.
Ratio(n, d) == [num |-> n, den |-> d]

\* statistics.median
median(times) ==
  LET s == sorted(times)
      n == Len(s)
  IN IF n % 2 = 1 THEN Ratio(s[(n + 1) \div 2], 1)
     ELSE Ratio(s[n \div 2] + s[n \div 2 + 1], 2)

\* The element one place below the index int(len * p).
percentileBelow(times, p) ==
  LET s == sorted(times)
  IN IF Len(s) > 1 THEN s[(Len(s) * p) \div 100] ELSE s[1]

\* sorted_times[int(len(sorted_times) * p)] if len > 1 else sorted_times[0]
percentile(times, p) ==
  LET s == sorted(times)
  IN IF Len(s) > 1 THEN s[(Len(s) * p) \div 100 + 1] ELSE s[1]

\* The "response_times" block of the advanced and comprehensive analyzers.
response_time_stats(response_times) ==
  [min |-> sorted(response_times)[1],
   max |-> sorted(response_times)[Len(response_times)],
   mean |-> Ratio(SumSeq(response_times), Len(response_times)),
   median |-> median(response_times),
   p95 |-> percentile(response_times, 95),
   p99 |-> percentile(response_times, 99)]

\* status code -> number of outcomes with it
status_code_distribution(status_codes) ==
  [code \in Range(status_codes) |->
     Count(status_codes, LAMBDA c : c = code)]

IsError(r) == Truthy(r.error) \/ r.status_code >= 400
IsSuccessful(r) == 200 <= r.status_code /\ r.status_code < 400
ResponseTimes(rs) ==
  Map(SelectSeq(rs, LAMBDA r : r.status_code > 0), LAMBDA r : r.response_time)

\* AdvancedLoadTester.analyze_results
adv_endpoint_entry(rs, test_duration) ==
  [total_requests |-> Len(rs),
   successful_requests |-> Count(rs, IsSuccessful),
   error_rate |-> Ratio(Count(rs, IsError) * 100, Len(rs)),
   response_times |-> response_time_stats(ResponseTimes(rs)),
   throughput |-> Ratio(Len(rs), test_duration),
   status_code_distribution |->
     status_code_distribution(Map(rs, LAMBDA r : r.status_code)),
   errors |-> Count(rs, IsError)]

adv_analyze_results(rs, test_duration, max_concurrent) ==
  IF rs = << >> THEN [error |-> "No results to analyze"]
  ELSE
    LET of(name) == SelectSeq(rs, LAMBDA r : r.endpoint = name)
        names == {r.endpoint : r \in Range(rs)}
        reported == {name \in names : ResponseTimes(of(name)) # << >>}
    IN [test_summary |->
          [total_requests |-> Len(rs),
           test_duration |-> test_duration,
           max_concurrent |-> max_concurrent,
           average_rps |-> Ratio(Len(rs), test_duration)],
        endpoints |->
          [name \in reported |-> adv_endpoint_entry(of(name), test_duration)]]

\* ComprehensiveLoadTester.analyze_results_by_level
comp_endpoint_entry(rs, duration) ==
  [total_requests |-> Len(rs),
   successful_requests |-> Count(rs, IsSuccessful),
   failed_requests |-> Count(rs, IsError),
   success_rate |-> Ratio(Count(rs, IsSuccessful) * 100, Len(rs)),
   error_rate |-> Ratio(Count(rs, IsError) * 100, Len(rs)),
   response_times |-> response_time_stats(ResponseTimes(rs)),
   throughput |-> IF duration > 0 THEN Ratio(Len(rs), duration)
                  ELSE Ratio(0, 1),
   status_codes |->
     status_code_distribution(Map(rs, LAMBDA r : r.status_code)),
   errors |->
     LET errs == SelectSeq(rs, IsError)
     IN [k \in 1..(IF Len(errs) < 5 THEN Len(errs) ELSE 5) |->
           [error |-> errs[k].error, status |-> errs[k].status_code]]]

analyze_results_by_level(rs, users) ==
  LET level_results == SelectSeq(rs, LAMBDA r : r.concurrent_users = users)
  IN IF level_results = << >>
     THEN [error |-> "No results found"]
     ELSE
       LET of(name) == SelectSeq(level_results, LAMBDA r : r.endpoint = name)
           names == {r.endpoint : r \in Range(level_results)}
           reported == {name \in names : ResponseTimes(of(name)) # << >>}
           stamps == sorted(Map(level_results, LAMBDA r : r.timestamp))
           duration == stamps[Len(stamps)] - stamps[1]
       IN [concurrent_users |-> users,
           total_requests |-> Len(level_results),
           duration |-> duration,
           endpoints |->
             [name \in reported |-> comp_endpoint_entry(of(name), duration)]]

\* quick_load_test.py analyze_results: the statistics of the successes, or
\* zeros when there is none.
quick_time_stats(response_times) ==
  IF response_times # << >>
  THEN [average |-> Ratio(SumSeq(response_times), Len(response_times)),
        minimum |-> sorted(response_times)[1],
        maximum |-> sorted(response_times)[Len(response_times)],
        p95 |-> percentile(response_times, 95),
        p99 |-> percentile(response_times, 99)]
  ELSE [average |-> Ratio(0, 1), minimum |-> 0, maximum |-> 0,
        p95 |-> 0, p99 |-> 0]

SuccessTimes(rs) ==
  Map(SelectSeq(rs, LAMBDA r : r.success), LAMBDA r : r.response_time)

quick_endpoint_stats(rs) ==
  [total |-> Len(rs),
   successful |-> Count(rs, LAMBDA r : r.success),
   response_times |-> SuccessTimes(rs),
   avg_response_time |->
     IF SuccessTimes(rs) # << >>
     THEN Ratio(SumSeq(SuccessTimes(rs)), Len(SuccessTimes(rs)))
     ELSE Ratio(0, 1),
   success_rate |->
     IF SuccessTimes(rs) # << >>
     THEN Ratio(Count(rs, LAMBDA r : r.success) * 100, Len(rs))
     ELSE Ratio(0, 1)]

quick_analyze_results(rs) ==
  IF rs = << >> THEN [error |-> "No results to analyze"]
  ELSE
    LET total_requests == Len(rs)
        successful_requests == Count(rs, LAMBDA r : r.success)
        of(name) == SelectSeq(rs, LAMBDA r : r.endpoint = name)
    IN [total_requests |-> total_requests,
        successful_requests |-> successful_requests,
        failed_requests |-> total_requests - successful_requests,
        success_rate |-> Ratio(successful_requests * 100, total_requests),
        response_time_stats |-> quick_time_stats(SuccessTimes(rs)),
        endpoint_breakdown |->
          [name \in {r.endpoint : r \in Range(rs)} |->
             quick_endpoint_stats(of(name))]]

\* ------------------------------------------------------------ command line
ConcurrencyValues == -1..MaxConcurrent
DurationValues == 0..MaxDuration
StepValues == 0..MaxStep
RampUpValues == {0, MaxRampUp}

\* quick_load_test.py has no options: load_levels and duration are fixed.
load_levels == [k \in 1..MaxConcurrent |-> k]
QuickDuration == MaxDuration

Configs(p) ==
  IF p = "advanced"
  THEN [max_concurrent : ConcurrencyValues, step : {0},
        duration : DurationValues, ramp_up_time : RampUpValues]
  ELSE IF p = "comprehensive"
  THEN [max_concurrent : ConcurrencyValues, step : StepValues,
        duration : DurationValues, ramp_up_time : {0}]
  ELSE [max_concurrent : {load_levels[Len(load_levels)]}, step : {0},
        duration : {QuickDuration}, ramp_up_time : {0}]

NoReq == [ep |-> "", start |-> 0]

Init ==
  /\ prog \in Progs
  /\ config \in Configs(prog)
  /\ pc = "main"
  /\ exception = None
  /\ now = 0
  /\ start_time = 0
  /\ sleep_start = 0
  /\ levels = << >>
  /\ concurrent_users = 0
  /\ i = 0
  /\ semaphore = 0
  /\ wpc = [w \in Workers |-> "none"]
  /\ wreq = [w \in Workers |-> NoReq]
  /\ requests_made = [w \in Workers |-> 0]
  /\ results = << >>
  /\ all_analysis = << >>
  /\ issued = 0
  /\ repeats = 0
  /\ returned = ""
  /\ probe_status = -1
  /\ peak = 0
  /\ endpoint_table = endpoints
  /\ draw = 0

\* ----------------------------------------------------------------- workers
Deadline == start_time + config.duration

\* A loop test that never fails.
BeforeDeadlineAlways == TRUE

\* The loop test with <= for <.
BeforeOrAtDeadline == now - start_time <= config.duration

\* while time.time() - start_time < duration
BeforeDeadline == now - start_time < config.duration

\* comprehensive: async with semaphore
WorkerAcquire(w) ==
  /\ wpc[w] = "acquire"
  /\ semaphore > 0
  /\ semaphore' = semaphore - 1
  /\ wpc' = [wpc EXCEPT ![w] = "check"]
  /\ UNCHANGED << prog, config, pc, exception, now, start_time, sleep_start,
                  levels, concurrent_users, i, wreq, requests_made, results,
                  all_analysis, issued, repeats, returned,
                  probe_status, peak, endpoint_table, draw >>

\* The loop test holds: select an endpoint and send the request.
\* The name of the endpoint the running script's selector returns.
SelectedName(eps, r) ==
  IF prog = "advanced" THEN select_endpoint(eps, r).name
  ELSE IF prog = "comprehensive" THEN comp_select_endpoint(eps, r)[1]
  ELSE quick_select(eps, r).name

\* Worker v is inside its while loop with a request issued: a request in
\* flight, the pacing sleep after one, or back at the loop test.
Issuing(v) ==
  \/ wpc[v] \in {"inflight", "sleep"}
  \/ wpc[v] = "check" /\ requests_made[v] > 0

WorkerIssue(w) ==
  /\ wpc[w] = "check"
  /\ BeforeDeadline
  /\ requests_made[w] = 0 \/ repeats < MaxRepeat
  /\ \E r \in Draws(endpoint_table) :
       wreq' = [wreq EXCEPT ![w] =
                  [ep |-> SelectedName(endpoint_table, r), start |-> now]]
  /\ wpc' = [wpc EXCEPT ![w] = "inflight"]
  /\ issued' = issued + 1
  /\ peak' = LET active == Cardinality({v \in Workers \ {w} : Issuing(v)}) + 1
             IN IF active > peak THEN active ELSE peak
  /\ repeats' = IF requests_made[w] = 0 THEN repeats ELSE repeats + 1
  /\ UNCHANGED << prog, config, pc, exception, now, start_time, sleep_start,
                  levels, concurrent_users, i, semaphore, requests_made,
                  results, all_analysis, returned,
                  probe_status, endpoint_table, draw >>

\* The loop test fails: the worker returns (and releases the semaphore).
WorkerExit(w) ==
  /\ wpc[w] = "check"
  /\ ~BeforeDeadline
  /\ wpc' = [wpc EXCEPT ![w] = "done"]
  /\ semaphore' = IF prog = "comprehensive" THEN semaphore + 1 ELSE semaphore
  /\ UNCHANGED << prog, config, pc, exception, now, start_time, sleep_start,
                  levels, concurrent_users, i, wreq, requests_made, results,
                  all_analysis, issued, repeats, returned,
                  probe_status, peak, endpoint_table, draw >>

\* The outcome tagged with the concurrency of the probe.
OutcomeTaggedOne(w, resp) ==
  IF prog = "advanced"
  THEN make_request_adv([name |-> wreq[w].ep], wreq[w].start, resp)
  ELSE IF prog = "comprehensive"
  THEN make_request(wreq[w].ep, wreq[w].start, 1, resp)
  ELSE test_endpoint(wreq[w].ep, wreq[w].start, resp)

\* The outcome one script records for a request.
Outcome(w, resp) ==
  IF prog = "advanced"
  THEN make_request_adv([name |-> wreq[w].ep], wreq[w].start, resp)
  ELSE IF prog = "comprehensive"
  THEN make_request(wreq[w].ep, wreq[w].start, concurrent_users, resp)
  ELSE test_endpoint(wreq[w].ep, wreq[w].start, resp)

\* An append that writes over the last entry.
appendOverLast(rs, result) ==
  IF rs = << >> THEN << result >> ELSE [rs EXCEPT ![Len(rs)] = result]

\* results.append(result)
append(rs, result) == Append(rs, result)

\* The response or the exception arrives: the outcome is appended and the
\* worker goes to its pacing sleep.
WorkerComplete(w) ==
  /\ wpc[w] = "inflight"
  /\ \E resp \in Responses : results' = append(results, Outcome(w, resp))
  /\ requests_made' = [requests_made EXCEPT ![w] = @ + 1]
  /\ wreq' = [wreq EXCEPT ![w] = NoReq]
  /\ wpc' = [wpc EXCEPT ![w] = "sleep"]
  /\ UNCHANGED << prog, config, pc, exception, now, start_time, sleep_start,
                  levels, concurrent_users, i, semaphore, all_analysis,
                  issued, repeats, returned,
                  probe_status, peak, endpoint_table, draw >>

\* await asyncio.sleep(0.1 ...) returns: back to the loop test.
WorkerWake(w) ==
  /\ wpc[w] = "sleep"
  /\ wpc' = [wpc EXCEPT ![w] = "check"]
  /\ UNCHANGED << prog, config, pc, exception, now, start_time, sleep_start,
                  levels, concurrent_users, i, semaphore, wreq, requests_made,
                  results, all_analysis, issued, repeats, returned,
                  probe_status, peak, endpoint_table, draw >>

\* ------------------------------------------------------------ orchestrator
\* Every worker of the level has returned: asyncio.gather(*tasks) is ready.
AllDone == \A w \in Workers : wpc[w] \in {"none", "done"}

\* Spawn with one task too many.
SpawnOneMore(n, at) == [w \in Workers |-> IF w <= n + 1 THEN at ELSE "none"]

\* tasks.append(asyncio.create_task(worker())) for the first n workers
Spawn(n, at) == [w \in Workers |-> IF w <= n THEN at ELSE "none"]

\* list(range(start, stop, step)) as a set; step = 0 raises ValueError
PyRange(start, stop, step) ==
  IF step > 0
  THEN {x \in start..(stop - 1) : (x - start) % step = 0}
  ELSE {x \in (stop + 1)..start : (start - x) % (0 - step) = 0}

RECURSIVE SortedSeq(_)
SortedSeq(S) ==
  IF S = {} THEN << >>
  ELSE LET m == CHOOSE x \in S : \A y \in S : x <= y
       IN << m >> \o SortedSeq(S \ {m})

\* The levels of the range alone.
LevelsOfRange(max_concurrent, step) ==
  SortedSeq(PyRange(1, max_concurrent + 1, step))

\* levels = sorted(set(list(range(1, max_concurrent + 1, step)) + [max_concurrent]))
Levels(max_concurrent, step) ==
  SortedSeq(PyRange(1, max_concurrent + 1, step) \cup {max_concurrent})

\* advanced main(): requests.get(base_url + "/api/health", timeout=10); any
\* response lets the run start, an exception ends in sys.exit(1).
AdvProbe ==
  /\ prog = "advanced" /\ pc = "main"
  /\ issued' = issued + 1
  /\ \E resp \in Responses :
       IF resp.kind = "http"
       THEN /\ pc' = "run_test" /\ exception' = exception
            /\ probe_status' = resp.status
       ELSE /\ pc' = "exit" /\ exception' = "SystemExit"
            /\ probe_status' = 0
  /\ UNCHANGED << prog, config, now, start_time, sleep_start, levels,
                  concurrent_users, i, semaphore, wpc, wreq, requests_made,
                  results, all_analysis, returned, repeats,
                  peak, endpoint_table, draw >>

\* run_test up to the first await of ramp_up_workers:
\* ramp_interval = ramp_up_time / max_concurrent
AdvRunTest ==
  /\ prog = "advanced" /\ pc = "run_test"
  /\ start_time' = now
  /\ concurrent_users' = config.max_concurrent
  /\ i' = 0
  /\ IF config.max_concurrent = 0
     THEN pc' = "raised" /\ exception' = "ZeroDivisionError"
     ELSE /\ pc' = IF config.max_concurrent > 0 THEN "ramp" ELSE "gather"
          /\ exception' = exception
  /\ UNCHANGED << prog, config, now, sleep_start, levels, semaphore, wpc,
                  wreq, requests_made, results, all_analysis, issued, repeats,
                  returned,
                  probe_status, peak, endpoint_table, draw >>

\* One iteration of "for i in range(max_concurrent)": create worker i and,
\* but for the last, sleep ramp_interval.
AdvSpawn ==
  /\ prog = "advanced" /\ pc = "ramp"
  /\ i < config.max_concurrent
  /\ wpc' = [wpc EXCEPT ![i + 1] = "check"]
  /\ IF i < config.max_concurrent - 1
     THEN pc' = "ramp_sleep" /\ sleep_start' = now /\ i' = i
     ELSE pc' = "gather" /\ sleep_start' = sleep_start /\ i' = i + 1
  /\ UNCHANGED << prog, config, exception, now, start_time, levels,
                  concurrent_users, semaphore, wreq, requests_made, results,
                  all_analysis, issued, repeats, returned,
                  probe_status, peak, endpoint_table, draw >>

\* A sleep that returns at once.
RampSleepSkipped == TRUE

\* asyncio.sleep(ramp_interval) is over
RampSleepOver ==
  (now - sleep_start) * config.max_concurrent >= config.ramp_up_time

AdvRampWake ==
  /\ prog = "advanced" /\ pc = "ramp_sleep"
  /\ RampSleepOver
  /\ i' = i + 1
  /\ pc' = "ramp"
  /\ UNCHANGED << prog, config, exception, now, start_time, sleep_start,
                  levels, concurrent_users, semaphore, wpc, wreq,
                  requests_made, results, all_analysis, issued, repeats, returned,
                  probe_status, peak, endpoint_table, draw >>

\* gather returns; analyze_results; save_results, whose generate_report
\* reads analysis['test_summary'].
AdvFinish ==
  /\ prog = "advanced" /\ pc = "gather"
  /\ AllDone
  /\ LET analysis == adv_analyze_results(results, config.duration,
                                         config.max_concurrent)
     IN /\ all_analysis' = (config.max_concurrent :> analysis)
        /\ IF "test_summary" \in DOMAIN analysis
           THEN pc' = "done" /\ exception' = exception
                /\ returned' = "analysis"
           ELSE pc' = "raised" /\ exception' = "KeyError"
                /\ returned' = returned
  /\ UNCHANGED << prog, config, now, start_time, sleep_start, levels,
                  concurrent_users, i, semaphore, wpc, wreq, requests_made,
                  results, issued, repeats,
                  probe_status, peak, endpoint_table, draw >>

\* A probe whose failure is not looked at.
ProbeFailedIgnored(result) == FALSE

\* if test_result.status_code == 0
ProbeFailed(result) == result.status_code = 0

\* run_comprehensive_test up to the first level: the connectivity probe is
\* make_request("health_check", ..., 1), whose outcome is not appended.
CompProbe ==
  /\ prog = "comprehensive" /\ pc = "main"
  /\ issued' = issued + 1
  /\ \E resp \in Responses :
       LET test_result == make_request("health_check", now, 1, resp)
       IN /\ probe_status' = test_result.status_code
          /\ IF ProbeFailed(test_result)
             THEN /\ pc' = "done" /\ returned' = "None"
                  /\ exception' = exception /\ levels' = levels
             ELSE IF config.step = 0
             THEN /\ pc' = "raised" /\ exception' = "ValueError"
                  /\ returned' = returned /\ levels' = levels
             ELSE /\ pc' = "level" /\ exception' = exception
                  /\ returned' = returned
                  /\ levels' = Levels(config.max_concurrent, config.step)
  /\ UNCHANGED << prog, config, now, start_time, sleep_start,
                  concurrent_users, i, semaphore, wpc, wreq, requests_made,
                  results, all_analysis, repeats,
                  peak, endpoint_table, draw >>

\* load_test_level up to gather: the semaphore and the worker tasks.
\* asyncio.Semaphore(value) raises ValueError for value < 0.
CompLevelStart ==
  /\ prog = "comprehensive" /\ pc = "level"
  /\ levels # << >>
  /\ concurrent_users' = Head(levels)
  /\ levels' = Tail(levels)
  /\ IF Head(levels) < 0
     THEN /\ pc' = "raised" /\ exception' = "ValueError"
          /\ UNCHANGED << start_time, semaphore, wpc, requests_made, peak >>
     ELSE /\ pc' = "gather" /\ exception' = exception
          /\ start_time' = now
          /\ peak' = 0
          /\ semaphore' = Head(levels)
          /\ wpc' = Spawn(Head(levels), "acquire")
          /\ requests_made' = [w \in Workers |-> 0]
  /\ UNCHANGED << prog, config, now, sleep_start, i, wreq, results,
                  all_analysis, issued, repeats, returned,
                  probe_status, endpoint_table, draw >>

\* gather returns; the level is analysed and its summary logged:
\* statistics.mean over the reported endpoints raises StatisticsError when
\* there is none.
CompLevelEnd ==
  /\ prog = "comprehensive" /\ pc = "gather"
  /\ AllDone
  /\ LET level_analysis == analyze_results_by_level(results, concurrent_users)
     IN /\ all_analysis' =
             [l \in DOMAIN all_analysis \cup {concurrent_users} |->
                IF l = concurrent_users THEN level_analysis
                ELSE all_analysis[l]]
        /\ IF "endpoints" \in DOMAIN level_analysis
              /\ DOMAIN level_analysis.endpoints = {}
           THEN pc' = "raised" /\ exception' = "StatisticsError"
                /\ sleep_start' = sleep_start
           ELSE pc' = "pause" /\ exception' = exception
                /\ sleep_start' = now
  /\ UNCHANGED << prog, config, now, start_time, levels, concurrent_users,
                  i, semaphore, wpc, wreq, requests_made, results, issued, repeats,
                  returned,
                  probe_status, peak, endpoint_table, draw >>

\* quick main(): load_levels
QuickStart ==
  /\ prog = "quick" /\ pc = "main"
  /\ levels' = load_levels
  /\ pc' = "level"
  /\ UNCHANGED << prog, config, exception, now, start_time, sleep_start,
                  concurrent_users, i, semaphore, wpc, wreq, requests_made,
                  results, all_analysis, issued, repeats, returned,
                  probe_status, peak, endpoint_table, draw >>

\* concurrent_load_test up to gather: a fresh results list and the workers.
QuickLevelStart ==
  /\ prog = "quick" /\ pc = "level"
  /\ levels # << >>
  /\ concurrent_users' = Head(levels)
  /\ levels' = Tail(levels)
  /\ results' = << >>
  /\ start_time' = now
  /\ peak' = 0
  /\ wpc' = Spawn(Head(levels), "check")
  /\ requests_made' = [w \in Workers |-> 0]
  /\ pc' = "gather"
  /\ UNCHANGED << prog, config, exception, now, sleep_start, i, semaphore,
                  wreq, all_analysis, issued, repeats, returned,
                  probe_status, endpoint_table, draw >>

\* gather returns; analyze_results; main prints analysis['total_requests'].
QuickLevelEnd ==
  /\ prog = "quick" /\ pc = "gather"
  /\ AllDone
  /\ LET analysis == quick_analyze_results(results)
     IN /\ all_analysis' =
             [l \in DOMAIN all_analysis \cup {concurrent_users} |->
                IF l = concurrent_users THEN analysis ELSE all_analysis[l]]
        /\ IF "total_requests" \in DOMAIN analysis
           THEN pc' = "pause" /\ exception' = exception
                /\ sleep_start' = now
           ELSE pc' = "raised" /\ exception' = "KeyError"
                /\ sleep_start' = sleep_start
  /\ UNCHANGED << prog, config, now, start_time, levels, concurrent_users,
                  i, semaphore, wpc, wreq, requests_made, results, issued, repeats,
                  returned,
                  probe_status, peak, endpoint_table, draw >>

\* await asyncio.sleep(2) is over
PauseOver == now - sleep_start >= PauseBetweenLevels

\* The pause between levels ends: next level, or the run returns.
PauseWake ==
  /\ prog \in {"comprehensive", "quick"} /\ pc = "pause"
  /\ PauseOver
  /\ IF levels = << >>
     THEN pc' = "done" /\ returned' = "analysis"
     ELSE pc' = "level" /\ returned' = returned
  /\ UNCHANGED << prog, config, exception, now, start_time, sleep_start,
                  levels, concurrent_users, i, semaphore, wpc, wreq,
                  requests_made, results, all_analysis, issued, repeats,
                  probe_status, peak, endpoint_table, draw >>

\* ------------------------------------------------------------------- clock
\* The event loop runs every coroutine that can run before it waits: the
\* clock advances only while the orchestrator waits (for its workers or in
\* a sleep that is not over) and no worker is at its loop test with a
\* request to send or a deadline to see.
WorkerWaits(w) ==
  \/ wpc[w] \in {"none", "inflight", "sleep", "done"}
  \/ /\ wpc[w] = "check" /\ BeforeDeadline
     /\ requests_made[w] > 0 /\ repeats >= MaxRepeat

OrchestratorWaits ==
  \/ pc = "gather" /\ ~AllDone
  \/ pc = "ramp_sleep" /\ ~RampSleepOver
  \/ pc = "pause" /\ ~PauseOver

Tick ==
  /\ now < MaxTime
  /\ OrchestratorWaits
  /\ \A w \in Workers : WorkerWaits(w)
  /\ now' = now + 1
  /\ UNCHANGED << prog, config, pc, exception, start_time, sleep_start,
                  levels, concurrent_users, i, semaphore, wpc, wreq,
                  requests_made, results, all_analysis, issued, repeats, returned,
                  probe_status, peak, endpoint_table, draw >>

Next ==
  \/ AdvProbe
  \/ AdvRunTest
  \/ AdvSpawn
  \/ AdvRampWake
  \/ AdvFinish
  \/ CompProbe
  \/ CompLevelStart
  \/ CompLevelEnd
  \/ QuickStart
  \/ QuickLevelStart
  \/ QuickLevelEnd
  \/ PauseWake
  \/ Tick
  \/ \E w \in Workers : WorkerAcquire(w)
  \/ \E w \in Workers : WorkerIssue(w)
  \/ \E w \in Workers : WorkerExit(w)
  \/ \E w \in Workers : WorkerComplete(w)
  \/ \E w \in Workers : WorkerWake(w)

Spec == Init /\ [][Next]_vars

\* ================================================================== claims
InFlight == {w \in Workers : wpc[w] = "inflight"}

Status(r) == IF prog = "quick" THEN r.status ELSE r.status_code
Size(r) == IF prog = "quick" THEN r.content_length ELSE r.response_size
ErrorOf(r) == IF "error" \in DOMAIN r THEN r.error ELSE None

EndpointNames == {endpoints[k].name : k \in 1..Len(endpoints)}

\* The outcomes of level l: the whole list in the advanced script, the
\* entries tagged l in the comprehensive one, the level's own list in the
\* quick one.
LevelOutcomes(l) ==
  IF prog = "comprehensive"
  THEN SelectSeq(results, LAMBDA r : r.concurrent_users = l)
  ELSE results

OutcomesOf(l, name) == SelectSeq(LevelOutcomes(l), LAMBDA r : r.endpoint = name)

\* The levels whose analysis is that of the outcomes now in results.
Analysed ==
  {l \in DOMAIN all_analysis : prog # "quick" \/ l = concurrent_users}

RECURSIVE SumOver(_, _)
SumOver(S, f) ==
  IF S = {} THEN 0
  ELSE LET w == CHOOSE x \in S : TRUE IN f[w] + SumOver(S \ {w}, f)

\* C1: during a level the number of requests in flight is at most the
\* concurrency configured for the level (a level whose concurrency is not
\* positive has none in flight), and that concurrency is the configured one.
C1_ConcurrencyBound ==
  /\ Cardinality(InFlight) <= IF concurrent_users > 0 THEN concurrent_users
                              ELSE 0
  /\ InFlight # {} =>
       \/ prog = "advanced" /\ concurrent_users = config.max_concurrent
       \/ prog = "comprehensive"
            /\ concurrent_users \in
                 Range(Levels(config.max_concurrent, config.step))
       \/ prog = "quick" /\ concurrent_users \in Range(load_levels)

C1_Witness ==
  /\ concurrent_users >= 2
  /\ Cardinality(InFlight) = concurrent_users

\* C2: every attempt a worker completes appends exactly one outcome: the
\* outcomes of the level are as many as the attempts its workers completed,
\* every request issued is in flight or recorded, and results only grows
\* at its end, by one entry per completion (the quick script starts each
\* level with a new list).
C2_Counted ==
  /\ Len(LevelOutcomes(concurrent_users)) = SumOver(Workers, requests_made)
  /\ prog # "quick" =>
       Len(results) + Cardinality(InFlight)
         = issued - (IF pc = "main" THEN 0 ELSE 1)

C2_AppendStep ==
  /\ \A w \in Workers :
       wpc[w] = "inflight" /\ wpc'[w] # "inflight" =>
         /\ Len(results') = Len(results) + 1
         /\ requests_made'[w] = requests_made[w] + 1
  /\ results' # results =>
       \/ /\ \E w \in Workers : wpc[w] = "inflight" /\ wpc'[w] = "sleep"
          /\ Len(results') = Len(results) + 1
          /\ SubSeq(results', 1, Len(results)) = results
       \/ prog = "quick" /\ pc = "level" /\ results' = << >>

C2_AppendOnly == [](C2_Counted) /\ [][C2_AppendStep]_vars

C2_Witness ==
  /\ Len(results) >= 2
  /\ \A w \in 1..2 : requests_made[w] = 1

\* C3: a request that fails in transport is recorded with status code 0,
\* response size 0 and a non-empty error description, and its worker goes
\* on (to its pacing sleep and the next loop test).
C3_FailureRecorded ==
  \A k \in 1..Len(results) :
    Status(results[k]) = 0 =>
      Size(results[k]) = 0 /\ Truthy(ErrorOf(results[k]))

C3_WorkerGoesOn ==
  \A w \in Workers :
    wpc[w] = "inflight" => wpc'[w] \in {"inflight", "sleep"}

C3_TransportFailure == [](C3_FailureRecorded) /\ [][C3_WorkerGoesOn]_vars

\* C4: a request is started only while the deadline (level start +
\* duration) is not reached, so no recorded request started at or after it;
\* a request in flight is never cancelled: it leaves flight only by being
\* recorded, and a worker returns only from its loop test.
C4_StartStep ==
  \A w \in Workers :
    wpc[w] # "inflight" /\ wpc'[w] = "inflight" =>
      /\ now < Deadline
      /\ wreq'[w].start = now

C4_NoCancelStep ==
  \A w \in Workers :
    /\ wpc[w] = "inflight" /\ wpc'[w] # "inflight" =>
         /\ wpc'[w] = "sleep"
         /\ Len(results') = Len(results) + 1
         /\ results'[Len(results')].endpoint = wreq[w].ep
         /\ results'[Len(results')].response_time = now - wreq[w].start
    /\ wpc[w] # "done" /\ wpc'[w] = "done" =>
         wpc[w] = "check" /\ now >= Deadline

C4_StartedBeforeDeadline ==
  /\ \A w \in InFlight : wreq[w].start < Deadline
  /\ prog # "quick" =>
       \A k \in 1..Len(LevelOutcomes(concurrent_users)) :
         LevelOutcomes(concurrent_users)[k].timestamp < Deadline

C4_Deadline ==
  /\ [](C4_StartedBeforeDeadline)
  /\ [][C4_StartStep /\ C4_NoCancelStep]_vars

\* A request that was in flight at the deadline is recorded and its worker
\* has returned.
C4_Witness ==
  /\ prog # "quick"
  /\ \E w \in Workers : wpc[w] = "done" /\ requests_made[w] > 0
  /\ \E k \in 1..Len(LevelOutcomes(concurrent_users)) :
       LET r == LevelOutcomes(concurrent_users)[k]
       IN r.timestamp + r.response_time > Deadline

\* What the claims count as an error and as a completed exchange.
ClaimIsError(r) == Status(r) = 0 \/ Status(r) >= 400
ClaimIsSuccess(r) == 200 <= Status(r) /\ Status(r) < 400
ClaimLatencies(rs) ==
  Map(SelectSeq(rs, LAMBDA r : Status(r) # 0), LAMBDA r : r.response_time)

HasEndpoints(l) == "endpoints" \in DOMAIN all_analysis[l]

\* C5: the error rate reported for an endpoint is
\* count(status = 0 or status >= 400) / count(outcomes of the endpoint).
C5_ErrorRate ==
  prog \in {"advanced", "comprehensive"} =>
    \A l \in Analysed : \A name \in EndpointNames :
      HasEndpoints(l) /\ name \in DOMAIN all_analysis[l].endpoints =>
        LET rs == OutcomesOf(l, name)
            rate == all_analysis[l].endpoints[name].error_rate
        IN rate.num * Len(rs) = 100 * Count(rs, ClaimIsError) * rate.den

\* C6: for every reported entry total_requests = successful_requests +
\* failed_requests and success_rate + error_rate = 100.
C6_Partition ==
  \A l \in Analysed :
    /\ prog = "comprehensive" /\ HasEndpoints(l) =>
         \A name \in DOMAIN all_analysis[l].endpoints :
           LET e == all_analysis[l].endpoints[name]
           IN /\ e.total_requests
                   = e.successful_requests + e.failed_requests
              /\ e.success_rate.num * e.error_rate.den
                   + e.error_rate.num * e.success_rate.den
                   = 100 * e.success_rate.den * e.error_rate.den
    /\ prog = "quick" /\ "total_requests" \in DOMAIN all_analysis[l] =>
         all_analysis[l].total_requests
           = all_analysis[l].successful_requests
             + all_analysis[l].failed_requests

\* C7: in all three analyzers the latency statistics are those of exactly
\* the outcomes with a non-zero status code.
C7_LatencySample ==
  \A l \in Analysed :
    /\ prog # "quick" /\ HasEndpoints(l) =>
         \A name \in DOMAIN all_analysis[l].endpoints :
           all_analysis[l].endpoints[name].response_times
             = response_time_stats(ClaimLatencies(OutcomesOf(l, name)))
    /\ prog = "quick" /\ "endpoint_breakdown" \in DOMAIN all_analysis[l] =>
         /\ all_analysis[l].response_time_stats
              = quick_time_stats(ClaimLatencies(LevelOutcomes(l)))
         /\ \A name \in DOMAIN all_analysis[l].endpoint_breakdown :
              all_analysis[l].endpoint_breakdown[name].response_times
                = ClaimLatencies(OutcomesOf(l, name))

\* Every outcome of the endpoint in the level has status 0, and there is one.
AllFailed(l, name) ==
  /\ OutcomesOf(l, name) # << >>
  /\ \A k \in 1..Len(OutcomesOf(l, name)) :
       Status(OutcomesOf(l, name)[k]) = 0

\* C8: an endpoint all of whose requests failed with status 0 is still
\* reported, with error rate 100%, 0 successful requests and no latency
\* statistics.
C8_AllFailedReported ==
  \A l \in Analysed : \A name \in EndpointNames :
    AllFailed(l, name) =>
      IF prog = "quick"
      THEN /\ "endpoint_breakdown" \in DOMAIN all_analysis[l]
           /\ name \in DOMAIN all_analysis[l].endpoint_breakdown
           /\ LET e == all_analysis[l].endpoint_breakdown[name]
              IN /\ e.successful = 0
                 /\ e.success_rate.num = 0
                 /\ "avg_response_time" \notin DOMAIN e
      ELSE /\ HasEndpoints(l)
           /\ name \in DOMAIN all_analysis[l].endpoints
           /\ LET e == all_analysis[l].endpoints[name]
              IN /\ e.error_rate.num = 100 * e.error_rate.den
                 /\ e.successful_requests = 0
                 /\ "response_times" \notin DOMAIN e

\* C9: in run_comprehensive_test, after a successful probe, a level all of
\* whose requests failed in transport does not make an exception leave the
\* run.
C9_FailedLevelSurvived ==
  ( /\ prog = "comprehensive"
    /\ \E l \in DOMAIN all_analysis :
         /\ LevelOutcomes(l) # << >>
         /\ \A k \in 1..Len(LevelOutcomes(l)) :
              Status(LevelOutcomes(l)[k]) = 0 )
  => exception = None /\ pc # "raised"

\* The configuration errors of the command line.
ConfigError ==
  \/ config.max_concurrent <= 0
  \/ config.duration <= 0
  \/ prog = "comprehensive" /\ config.step <= 0

\* C10: under a configuration error no request is issued, no worker is
\* created and no run is completed.
C10_ConfigRejected ==
  ConfigError =>
    /\ issued = 0
    /\ \A w \in Workers : wpc[w] = "none"
    /\ pc # "done"

\* C11: when the connectivity probe fails in transport, the program stops
\* without load generation: no worker exists, the probe is the only request
\* ever issued, the results stay empty, nothing is analysed, and the program
\* has ended reporting the failure (sys.exit(1) in the advanced script, the
\* logged error and a None return in the comprehensive one).
C11_ProbeFailureStops ==
  probe_status = 0 =>
    /\ \A w \in Workers : wpc[w] = "none"
    /\ issued = 1
    /\ results = << >>
    /\ DOMAIN all_analysis = {}
    /\ prog = "advanced" => pc = "exit" /\ exception = "SystemExit"
    /\ prog = "comprehensive" => pc = "done" /\ returned = "None"

\* The comprehensive run ended after a failed probe.
C11_Witness ==
  /\ probe_status = 0
  /\ pc \in {"exit", "done"}
  /\ prog = "comprehensive"

\* The level that was started has ended: every worker of it has returned.
LevelEnded ==
  \/ pc = "gather" /\ AllDone
  \/ prog = "advanced" /\ pc = "done"

\* The concurrency configured for the level that is running.
Configured ==
  IF prog = "advanced" THEN config.max_concurrent ELSE concurrent_users

\* C12: in every level of a run with a valid configuration there was a
\* moment at which exactly the configured number of workers were active and
\* issuing requests: when the level has ended, the most workers seen at once
\* inside their loop is the configured concurrency.
C12_ConcurrencyObserved ==
  (~ConfigError /\ LevelEnded) => peak = Configured

\* ------------------------------------------------- the analyzers on their own
\* The analyzers as functions of a list of outcomes: the list is fed outcome
\* by outcome, each any latency and any response, and in blocks of the ten
\* outcomes of the end-to-end scenario; then the script's analyzer runs on it.
\* Latencies are in tenths of a second.
Scenario == << 1, 1, 2, 2, 2, 3, 3, 4, 5, 10 >>
Latencies == {1, MaxLatency}
FixedConfig == [max_concurrent |-> 1, step |-> 1, duration |-> 1,
                ramp_up_time |-> 0]

\* The outcome the script records for a request that took t.
Fed(t, resp) ==
  IF prog = "advanced" THEN make_request_adv(endpoints[1], now - t, resp)
  ELSE IF prog = "comprehensive"
  THEN make_request(endpoints[1].name, now - t, concurrent_users, resp)
  ELSE test_endpoint(endpoints[1].name, now - t, resp)

StatsInit ==
  /\ prog \in Progs
  /\ config = FixedConfig
  /\ pc = "feed"
  /\ exception = None
  /\ now = Scenario[Len(Scenario)] + MaxLatency
  /\ start_time = 0
  /\ sleep_start = 0
  /\ levels = << >>
  /\ concurrent_users = 1
  /\ i = 0
  /\ semaphore = 0
  /\ wpc = [w \in Workers |-> "none"]
  /\ wreq = [w \in Workers |-> NoReq]
  /\ requests_made = [w \in Workers |-> 0]
  /\ results = << >>
  /\ all_analysis = << >>
  /\ issued = 0
  /\ repeats = 0
  /\ returned = ""
  /\ probe_status = -1
  /\ peak = 0
  /\ endpoint_table = endpoints
  /\ draw = 0

\* results.append(result), for any latency and any response.
FeedOutcome ==
  /\ pc = "feed"
  /\ Len(results) - i * Len(Scenario) < MaxSamples
  /\ \E t \in Latencies, resp \in Responses :
       results' = append(results, Fed(t, resp))
  /\ UNCHANGED << prog, config, pc, exception, now, start_time, sleep_start,
                  levels, concurrent_users, i, semaphore, wpc, wreq,
                  requests_made, all_analysis, issued, repeats, returned,
                  probe_status, peak, endpoint_table, draw >>

\* The ten outcomes of the scenario, all with status 200; i counts the blocks.
FeedScenario ==
  /\ pc = "feed"
  /\ i < MaxScenarios
  /\ results' = results \o
       [k \in 1..Len(Scenario) |->
          Fed(Scenario[k], [kind |-> "http", status |-> 200, size |-> 2])]
  /\ i' = i + 1
  /\ UNCHANGED << prog, config, pc, exception, now, start_time, sleep_start,
                  levels, concurrent_users, semaphore, wpc, wreq,
                  requests_made, all_analysis, issued, repeats, returned,
                  probe_status, peak, endpoint_table, draw >>

\* The script's analyzer on the list fed.
AnalyzeFed ==
  /\ pc = "feed"
  /\ all_analysis' =
       (concurrent_users :>
          IF prog = "advanced"
          THEN adv_analyze_results(results, config.duration,
                                   config.max_concurrent)
          ELSE IF prog = "comprehensive"
          THEN analyze_results_by_level(results, concurrent_users)
          ELSE quick_analyze_results(results))
  /\ pc' = "analysed"
  /\ UNCHANGED << prog, config, exception, now, start_time, sleep_start,
                  levels, concurrent_users, i, semaphore, wpc, wreq,
                  requests_made, results, issued, repeats, returned,
                  probe_status, peak, endpoint_table, draw >>

StatsNext == FeedOutcome \/ FeedScenario \/ AnalyzeFed

SpecStats == StatsInit /\ [][StatsNext]_vars

\* The latency statistics reported for the list fed, when there are any:
\* the block of the one endpoint in the advanced and comprehensive scripts,
\* the overall block in the quick one.
HasTimeStats ==
  /\ pc = "analysed"
  /\ IF prog = "quick"
     THEN "response_time_stats" \in DOMAIN all_analysis[1]
     ELSE /\ "endpoints" \in DOMAIN all_analysis[1]
          /\ endpoints[1].name \in DOMAIN all_analysis[1].endpoints

TimeStats ==
  IF prog = "quick" THEN all_analysis[1].response_time_stats
  ELSE all_analysis[1].endpoints[endpoints[1].name].response_times

MeanOf(stats) == IF prog = "quick" THEN stats.average ELSE stats.mean

\* The list fed is the scenario: its ten latencies in order, all status 200.
IsScenario ==
  /\ Len(results) = Len(Scenario)
  /\ \A k \in 1..Len(Scenario) :
       results[k].response_time = Scenario[k] /\ Status(results[k]) = 200

\* C13 as stated: for the scenario the analysis yields p95 = 0.5 s,
\* p99 = 1.0 s and mean = 0.33 s.
C13_ScenarioAsStated ==
  (pc = "analysed" /\ IsScenario) =>
    /\ HasTimeStats
    /\ TimeStats.p95 = 5
    /\ TimeStats.p99 = 10
    /\ MeanOf(TimeStats).num * 10 = 33 * MeanOf(TimeStats).den

\* C13, amended: for the scenario the analysis yields p95 = 1.0 s (the
\* element at index floor(10 * 0.95) = 9 of the sorted list), p99 = 1.0 s
\* and mean = 0.33 s.
C13_Scenario ==
  (pc = "analysed" /\ IsScenario) =>
    /\ HasTimeStats
    /\ TimeStats.p95 = 10
    /\ TimeStats.p99 = 10
    /\ MeanOf(TimeStats).num * 10 = 33 * MeanOf(TimeStats).den

\* The scenario has been analysed.
C13_Witness == pc = "analysed" /\ IsScenario /\ HasTimeStats

\* The latencies the script's analyzer takes its statistics from.
Sampled ==
  IF prog = "quick" THEN SuccessTimes(results) ELSE ResponseTimes(results)

\* The index of percentile p in a list of n samples.
IndexOf(n, p) == IF n >= 2 THEN (n * p) \div 100 ELSE 0

\* x is the element at index idx (from 0) of the ascending order of times:
\* at most idx samples are below x and more than idx are at most x.
AtIndex(times, idx, x) ==
  /\ Count(times, LAMBDA t : t < x) <= idx
  /\ idx < Count(times, LAMBDA t : t <= x)

\* C14: for every non-empty list of n latencies the reported p95 and p99
\* are the elements at index floor(n * 0.95) and floor(n * 0.99) of the
\* list in ascending order when n >= 2 and the single sample when n = 1,
\* and the index is a position of the list.
C14_Percentiles ==
  (pc = "analysed" /\ Sampled # << >>) =>
    LET n == Len(Sampled)
    IN /\ HasTimeStats
       /\ \A p \in {95, 99} : 0 <= IndexOf(n, p) /\ IndexOf(n, p) < n
       /\ AtIndex(Sampled, IndexOf(n, 95), TimeStats.p95)
       /\ AtIndex(Sampled, IndexOf(n, 99), TimeStats.p99)
       /\ n = 1 => TimeStats.p95 = Sampled[1] /\ TimeStats.p99 = Sampled[1]

\* A list long enough for the two indices to differ, fed out of order, has
\* been analysed, and its p95 is neither its p99 nor its largest sample.
C14_Witness ==
  /\ pc = "analysed" /\ HasTimeStats
  /\ IndexOf(Len(Sampled), 95) < IndexOf(Len(Sampled), 99)
  /\ Sampled # sorted(Sampled)
  /\ TimeStats.p95 < TimeStats.p99

\* ------------------------------------------------- the selectors on their own
\* The selector as a function of the endpoint table and of the draw r.  The
\* tables are the first entries of the default table with any weights from
\* 1 to MaxWeight.  The weights being integers, every real r in (m - 1, m]
\* is compared with the cumulative sums exactly as m is: the draws are the
\* integers 0..total, each m >= 1 standing for an interval of measure 1, and
\* total + 1 stands for an r beyond the final sum.
TableNames ==
  << "health_check", "auth_login", "questionnaire_templates",
     "gamification_progress", "user_info" >>

Tables ==
  UNION {{[k \in 1..n |-> [name |-> TableNames[k], weight |-> ws[k]]] :
            ws \in [1..n -> 1..MaxWeight]} :
         n \in 1..(IF MaxEndpoints < Len(TableNames)
                    THEN MaxEndpoints ELSE Len(TableNames))}

SelectInit ==
  /\ prog \in Progs
  /\ config = FixedConfig
  /\ pc = "select"
  /\ exception = None
  /\ now = 0
  /\ start_time = 0
  /\ sleep_start = 0
  /\ levels = << >>
  /\ concurrent_users = 1
  /\ i = 0
  /\ semaphore = 0
  /\ wpc = [w \in Workers |-> "none"]
  /\ wreq = [w \in Workers |-> NoReq]
  /\ requests_made = [w \in Workers |-> 0]
  /\ results = << >>
  /\ all_analysis = << >>
  /\ issued = 0
  /\ repeats = 0
  /\ returned = ""
  /\ probe_status = -1
  /\ peak = 0
  /\ endpoint_table \in Tables
  /\ draw = 0

\* One call of the selector: r is drawn and the endpoint selected is kept
\* as the endpoint of worker 1's request.
DrawAndSelect ==
  /\ pc \in {"select", "selected"}
  /\ \E r \in 0..(SumWeights(endpoint_table) + 1) :
       /\ draw' = r
       /\ wreq' = [wreq EXCEPT ![1] =
                     [ep |-> SelectedName(endpoint_table, r), start |-> now]]
  /\ pc' = "selected"
  /\ UNCHANGED << prog, config, exception, now, start_time, sleep_start,
                  levels, concurrent_users, i, semaphore, wpc, requests_made,
                  results, all_analysis, issued, repeats, returned,
                  probe_status, peak, endpoint_table >>

SelectNext == DrawAndSelect

SpecSelect == SelectInit /\ [][SelectNext]_vars

\* The sum of the first k weights.
Cumulative(eps, k) == SumWeights(SubSeq(eps, 1, k))

\* The first position whose cumulative weight is at least r, for r <= total.
FirstReaching(eps, r) ==
  CHOOSE k \in 1..Len(eps) :
    /\ Cumulative(eps, k) >= r
    /\ \A j \in 1..(k - 1) : Cumulative(eps, j) < r

\* C15: for every table with positive weights and every draw r in
\* [0, total] the selector returns the first endpoint whose cumulative
\* weight is >= r; the loop falls through to the first endpoint of the list
\* only when r exceeds the final sum; and the three copies return the same
\* endpoint for the same table and r.
C15_Selector ==
  pc = "selected" =>
    LET eps == endpoint_table
        total == SumWeights(eps)
    IN /\ draw <= total =>
            wreq[1].ep = eps[FirstReaching(eps, draw)].name
       /\ draw > total => wreq[1].ep = eps[1].name
       /\ Walk(eps, 1, 0, draw) = 0 <=> draw > total
       /\ comp_walk(eps, 1, 0, draw) = 0 <=> draw > total
       /\ select_endpoint(eps, draw) = comp_select_endpoint(eps, draw)[2]
       /\ select_endpoint(eps, draw) = quick_select(eps, draw)
       /\ comp_select_endpoint(eps, draw)[1] = select_endpoint(eps, draw).name

\* A draw on the boundary between two endpoints selected the earlier one,
\* which is not the first of the list.
C15_Witness ==
  /\ pc = "selected"
  /\ Len(endpoint_table) >= 3
  /\ draw = Cumulative(endpoint_table, 2)
  /\ wreq[1].ep = endpoint_table[2].name

\* C16: the draws that map to an endpoint have measure equal to its weight,
\* for every endpoint of the table: of the total unit intervals (m - 1, m],
\* exactly weight select the endpoint.
C16_Proportional ==
  pc \in {"select", "selected"} =>
    \A k \in 1..Len(endpoint_table) :
      Cardinality({m \in 1..SumWeights(endpoint_table) :
                     SelectedName(endpoint_table, m) = endpoint_table[k].name})
        = endpoint_table[k].weight

\* The last endpoint of a table of unequal weights was selected.
C16_Witness ==
  /\ pc = "selected"
  /\ Len(endpoint_table) >= 2
  /\ endpoint_table[1].weight # endpoint_table[Len(endpoint_table)].weight
  /\ wreq[1].ep = endpoint_table[Len(endpoint_table)].name

\* A level of the staircase starts, under max_concurrent >= 1 and step >= 1.
\* Before the step concurrent_users and start_time are those of the level
\* before, concurrent_users = 0 when there was none.
StairStarts ==
  /\ prog = "comprehensive" /\ pc = "level" /\ pc' = "gather"
  /\ config.max_concurrent >= 1 /\ config.step >= 1

\* What holds of every level start whatever the last gap is.
StairOrder ==
  /\ concurrent_users = 0 => concurrent_users' = 1
  /\ concurrent_users' > concurrent_users
  /\ concurrent_users' <= config.max_concurrent
  /\ concurrent_users > 0 => now >= start_time + config.duration
  /\ levels' = << >> <=> concurrent_users' = config.max_concurrent

StairDone ==
  (prog = "comprehensive" /\ pc = "done" /\ returned = "analysis") =>
    concurrent_users = config.max_concurrent /\ levels = << >>

Started == Cardinality({w \in Workers : wpc[w] # "none"})

\* C18: in ramp_up_workers the number of workers started never decreases and
\* grows by one worker at a time; a worker after the first is started when
\* ramp_up_time / max_concurrent seconds have passed since the one before,
\* and no later; when the ramp is over exactly max_concurrent workers have
\* been started, and never more.
C18_Ramp ==
  [][prog = "advanced" =>
       /\ Started' >= Started
       /\ Started' <= Started + 1
       /\ Started' <= (IF config.max_concurrent > 0
                       THEN config.max_concurrent ELSE 0)
       /\ Started' = Started + 1 =>
            /\ pc = "ramp" /\ Started = i
            /\ i > 0 =>
                 /\ (now - sleep_start) * config.max_concurrent
                      >= config.ramp_up_time
                 /\ (now - sleep_start - 1) * config.max_concurrent
                      < config.ramp_up_time
       /\ (pc = "ramp" /\ pc' = "gather") =>
            Started' = config.max_concurrent]_vars

\* A ramp of more than one worker over a positive time is complete, the
\* last worker started later than the first.
C18_Witness ==
  /\ prog = "advanced" /\ pc = "gather"
  /\ config.ramp_up_time > 0
  /\ config.max_concurrent >= 2
  /\ Started = config.max_concurrent
  /\ sleep_start < now

\* ------------------------------------------------ the fixed-level scripts
\* The comprehensive and the quick script under the scheduling of the event
\* loop: the clock advances, every request in flight completes or times
\* out, every pacing sleep returns, a coroutine that can run is run.
LevelInit == Init /\ prog \in {"comprehensive", "quick"}

LevelNext ==
  \/ CompProbe
  \/ CompLevelStart
  \/ CompLevelEnd
  \/ QuickStart
  \/ QuickLevelStart
  \/ QuickLevelEnd
  \/ PauseWake
  \/ Tick
  \/ \E w \in Workers : WorkerAcquire(w)
  \/ \E w \in Workers : WorkerIssue(w)
  \/ \E w \in Workers : WorkerExit(w)
  \/ \E w \in Workers : WorkerComplete(w)
  \/ \E w \in Workers : WorkerWake(w)

LevelFairness ==
  /\ WF_vars(Tick)
  /\ WF_vars(CompLevelEnd)
  /\ WF_vars(QuickLevelEnd)
  /\ \A w \in Workers :
       /\ WF_vars(WorkerAcquire(w))
       /\ WF_vars(WorkerIssue(w))
       /\ WF_vars(WorkerExit(w))
       /\ WF_vars(WorkerComplete(w))
       /\ WF_vars(WorkerWake(w))

SpecLevel == LevelInit /\ [][LevelNext]_vars /\ LevelFairness

\* C19: a level of load_test_level or concurrent_load_test has exactly
\* concurrent_users workers, and, its deadline being a time the clock
\* reaches, it ends: every worker has returned, at or after the deadline,
\* and gather has returned.
C19_FixedLevel ==
  /\ [](pc = "gather" => Started = concurrent_users)
  /\ (pc = "gather" /\ Deadline <= MaxTime)
       ~> (pc \in {"pause", "raised"} /\ AllDone /\ now >= Deadline)

\* A level of more than one worker has returned after its deadline.
C19_Witness ==
  /\ pc = "pause" /\ AllDone
  /\ concurrent_users >= 2
  /\ Started = concurrent_users
  /\ now >= Deadline
  /\ Len(results) >= concurrent_users

\* C20: the throughput reported for an endpoint of a level is the number of
\* the endpoint's outcomes in the level divided by the configured duration
\* of the level (test_duration, duration_per_level).
C20_Throughput ==
  prog \in {"advanced", "comprehensive"} =>
    \A l \in Analysed :
      HasEndpoints(l) =>
        \A name \in DOMAIN all_analysis[l].endpoints :
          LET t == all_analysis[l].endpoints[name].throughput
          IN t.num * config.duration = Len(OutcomesOf(l, name)) * t.den

\* The outcomes in results carrying the tag of level l.
Tagged(l) == Count(results, LAMBDA r : r.concurrent_users = l)

\* An outcome is appended only by a worker of the level that is running,
\* with that level's tag and a request started within the level.
LevelAppend ==
  results' # results =>
    /\ pc = "gather"
    /\ Len(results') = Len(results) + 1
    /\ SubSeq(results', 1, Len(results)) = results
    /\ results'[Len(results')].concurrent_users = concurrent_users
    /\ results'[Len(results')].timestamp >= start_time

\* When a level starts every worker of the level before has exited, no
\* request is in flight, and no outcome carries the new level's tag.
LevelHandover ==
  (pc = "level" /\ pc' = "gather") =>
    /\ AllDone
    /\ InFlight = {}
    /\ \A k \in 1..Len(results) :
         results[k].concurrent_users < concurrent_users'

\* The probe is in no level: it is issued and not recorded.  The outcomes
\* are in the order of the levels, and what a level's analysis counted is,
\* from then on, the number of outcomes with its tag.
LevelCounts ==
  /\ Len(results) + Cardinality(InFlight)
       = issued - (IF pc = "main" THEN 0 ELSE 1)
  /\ DOMAIN all_analysis = {} /\ pc # "gather" => results = << >>
  /\ \A k \in 1..Len(results) :
       results[k].concurrent_users \in DOMAIN all_analysis \cup {concurrent_users}
  /\ \A j, k \in 1..Len(results) :
       j < k => results[j].concurrent_users <= results[k].concurrent_users
  /\ \A l \in DOMAIN all_analysis :
       IF "total_requests" \in DOMAIN all_analysis[l]
       THEN /\ all_analysis[l].total_requests = Tagged(l)
            /\ all_analysis[l].concurrent_users = l
       ELSE Tagged(l) = 0

====
